---- MODULE Spec2Model ----
(***************************************************************************)
(* A model of src/smtpClient.js: the CRLF line reader, the response wait,  *)
(* dot-stuffing, and the send() session of SMTPClient with the HTTP        *)
(* handler that calls it.                                                  *)
(*                                                                         *)
(* Text is a sequence of one-character strings.  The two line-end          *)
(* characters are written "CR" and "LF"; the bytes of the two-byte UTF-8   *)
(* character U+00E9 are written "C3" and "A9".                             *)
(***************************************************************************)
EXTENDS Integers, Sequences, FiniteSets, TLC

VARIABLES
    cfg,        \* this.cfg of the SMTPClient
    msg,        \* the argument of send()
    pc,         \* where send() is suspended, or how it ended
    socket,     \* "none" | "open" | "ended" | "destroyed"
    tls,        \* "none" | "implicit" | "handshaking" | "secured"
    wait,       \* the pending readResponse: its reader and its promise
    resp,       \* the variable resp of send()
    ri,         \* index of the recipient the RCPT TO loop is at
    written,    \* every socket.write of this send, in order
    trace,      \* order of writes ("W"), waits started ("S"), resolved ("R"), rejected ("X")
    error,      \* the message of the Error send() threw, "" if none
    partial,    \* chunks delivered so far that did not complete a reply
    io,         \* what the methods of socket are bound to, and who listens
    lr,         \* one line reader fed a byte stream chunk by chunk
    rr,         \* one response wait fed line by line
    ds,         \* one body taken through normalisation and dotStuff
    cbs         \* the waits of one send and the callbacks they registered

vars == <<cfg, msg, pc, socket, tls, wait, resp, ri, written, trace, error,
          partial, io, lr, rr, ds, cbs>>

sessionVars == <<cfg, msg, pc, socket, tls, wait, resp, ri, written, trace,
                 error, partial, io>>

----------------------------------------------------------------------------
(* Bounds of the model *)

\* recipients in the to array
MaxTo == 2
\* chunks per send that leave the current wait pending
MaxPartial == 1
\* bytes of the stream fed to the lone line reader
MaxStream == 4
\* lines fed to the lone response wait
MaxLines == 3
\* characters of the body given to dotStuff
MaxBody == 4
\* the number of response waits of one send that are followed
MaxWaits == 2

----------------------------------------------------------------------------
(* Characters *)

CR == "CR"
LF == "LF"
CRLF == <<CR, LF>>

\* let code = null
NULL == -1

Digits == {"0", "1", "2", "3", "4", "5", "6", "7", "8", "9"}

DigitVal(c) ==
    CASE c = "0" -> 0 [] c = "1" -> 1 [] c = "2" -> 2 [] c = "3" -> 3
      [] c = "4" -> 4 [] c = "5" -> 5 [] c = "6" -> 6 [] c = "7" -> 7
      [] c = "8" -> 8 [] c = "9" -> 9

UpperOf ==
    [a |-> "A", b |-> "B", c |-> "C", d |-> "D", e |-> "E", f |-> "F",
     g |-> "G", h |-> "H", i |-> "I", j |-> "J", k |-> "K", l |-> "L",
     m |-> "M", n |-> "N", o |-> "O", p |-> "P", q |-> "Q", r |-> "R",
     s |-> "S", t |-> "T", u |-> "U", v |-> "V", w |-> "W", x |-> "X",
     y |-> "Y", z |-> "Z"]

LowerLetters == DOMAIN UpperOf

UpperLetters == {UpperOf[c] : c \in LowerLetters}

\* String.prototype.toUpperCase, one character
ToUpperChar(c) == IF c \in LowerLetters THEN UpperOf[c] ELSE c

\* String.prototype.toUpperCase
toUpperCase(s) == [i \in 1..Len(s) |-> ToUpperChar(s[i])]

\* \w of a regular expression
IsWordChar(c) == c \in LowerLetters \cup UpperLetters \cup Digits \cup {"_"}

\* the characters "." of a regular expression does not match
LineTerminators == {CR, LF}

\* whether pat occurs in s at index i
OccursAt(s, pat, i) ==
    /\ i >= 1
    /\ i + Len(pat) - 1 <= Len(s)
    /\ \A k \in 1..Len(pat) : s[i + k - 1] = pat[k]

\* String.prototype.includes
includes(s, pat) == \E i \in 1..(Len(s) + 1) : OccursAt(s, pat, i)

\* the concatenation of the strings ps[lo], ..., ps[hi]
RECURSIVE ConcatRange(_, _, _)
ConcatRange(ps, lo, hi) ==
    IF lo > hi THEN <<>>
    ELSE IF lo = hi THEN ps[lo]
    ELSE LET mid == (lo + hi) \div 2
         IN ConcatRange(ps, lo, mid) \o ConcatRange(ps, mid + 1, hi)

Concat(ps) == ConcatRange(ps, 1, Len(ps))

\* Array.prototype.join of an array of strings
join(xs, sep) ==
    Concat([i \in 1..Len(xs) |-> IF i = 1 THEN xs[i] ELSE sep \o xs[i]])

----------------------------------------------------------------------------
(* createLineReader *)

\* Buffer.prototype.toString("utf8") of one chunk, byte by byte: a complete
\* C3 A9 pair is one character, a byte of it standing alone becomes U+FFFD
Utf8At(b, i) ==
    IF b[i] = "C3" /\ i < Len(b) /\ b[i + 1] = "A9" THEN <<"U+00E9">>
    ELSE IF b[i] = "A9" /\ i > 1 /\ b[i - 1] = "C3" THEN <<>>
    ELSE IF b[i] \in {"C3", "A9"} THEN <<"U+FFFD">>
    ELSE <<b[i]>>

toStringUtf8(chunk) == Concat([i \in 1..Len(chunk) |-> Utf8At(chunk, i)])

\* buffer.indexOf("\r\n"), counted from 1; 0 when there is none
indexOfCRLF(buf) ==
    LET hits == {i \in 1..Len(buf) : OccursAt(buf, CRLF, i)}
    IN IF hits = {} THEN 0
       ELSE CHOOSE i \in hits : \A j \in hits : i <= j

\* the while loop of onData: the lines it hands to the listeners, and the
\* buffer it leaves
RECURSIVE drain(_, _)
drain(buf, out) ==
    LET idx == indexOfCRLF(buf)
    IN IF idx = 0 THEN [buffer |-> buf, lines |-> out]
       ELSE drain(SubSeq(buf, idx + 2, Len(buf)),
                  Append(out, SubSeq(buf, 1, idx - 1)))

\* onData of the line reader
onData(buffer, chunk) == drain(buffer \o toStringUtf8(chunk), <<>>)

----------------------------------------------------------------------------
(* readResponse *)

\* line.match(/^(\d{3})([ -])(.*)$/)
Match(line) ==
    /\ Len(line) >= 4
    /\ \A i \in 1..3 : line[i] \in Digits
    /\ line[4] \in {" ", "-"}
    /\ \A i \in 5..Len(line) : line[i] \notin LineTerminators

\* parseInt(m[1], 10)
parseInt(line) ==
    100 * DigitVal(line[1]) + 10 * DigitVal(line[2]) + DigitVal(line[3])

\* the state readResponse sets up: the reader's buffer and subscription,
\* lines and code, and the promise (state, and the code it resolved with)
NewWait ==
    [buffer |-> <<>>, attached |-> TRUE, lines |-> <<>>, code |-> NULL,
     state |-> "pending", rcode |-> NULL, late |-> FALSE]

NoWait ==
    [buffer |-> <<>>, attached |-> FALSE, lines |-> <<>>, code |-> NULL,
     state |-> "none", rcode |-> NULL, late |-> FALSE]

\* reader.remove(); resolve({ code, lines }): a promise settles once
Resolve(w) ==
    [w EXCEPT !.attached = FALSE,
              !.state = IF w.state = "pending" THEN "resolved" ELSE @,
              !.rcode = IF w.state = "pending" THEN w.code ELSE @]

\* reject(err) settling the promise whatever its state
Reject_Unconditional(w) ==
    [w EXCEPT !.attached = FALSE, !.state = "rejected"]

\* reader.remove(); reject(err)
Reject(w) ==
    [w EXCEPT !.attached = FALSE,
              !.state = IF w.state = "pending" THEN "rejected" ELSE @]

\* onLine resolving on any line with a code, whatever its separator
onLine_AnySeparator(w, line) ==
    LET w1 == [w EXCEPT !.lines = Append(@, line)]
    IN IF Match(line)
       THEN Resolve([w1 EXCEPT !.code = parseInt(line)])
       ELSE w1

\* the listener onLine of readResponse
onLine(w, line) ==
    LET w1 == [w EXCEPT !.lines = Append(@, line)]
    IN IF Match(line)
       THEN LET w2 == [w1 EXCEPT !.code = parseInt(line)]
            IN IF line[4] = " " THEN Resolve(w2) ELSE w2
       ELSE w1

\* listeners.forEach for every line of one onData call: remove() takes the
\* reader off the socket, not the listener off the reader, so the loop goes
\* on calling it; late records a call made after remove()
RECURSIVE EmitAll(_, _)
EmitAll(w, lines) ==
    IF Len(lines) = 0 THEN w
    ELSE EmitAll(onLine([w EXCEPT !.late = @ \/ ~w.attached], Head(lines)),
                 Tail(lines))

\* one "data" event of the socket reaching the wait's reader
Feed(w, chunk) ==
    LET d == onData(w.buffer, chunk)
    IN EmitAll([w EXCEPT !.buffer = d.buffer], d.lines)

\* the value the promise resolved with, as send() sees it: lines is the
\* array the listener keeps appending to
Response(w) == [code |-> w.rcode, lines |-> w.lines]

----------------------------------------------------------------------------
(* dotStuff and the normalisation before it *)

\* raw.replace(/\r?\n/g, CRLF), character by character: a match is an LF
\* with the CR before it, if there is one
NormalizeAt(s, i) ==
    IF s[i] = LF /\ ~(i > 1 /\ s[i - 1] = CR) THEN CRLF ELSE <<s[i]>>

normalize(raw) == Concat([i \in 1..Len(raw) |-> NormalizeAt(raw, i)])

\* body.replace(/\r?\n\./g, "\r\n.."), character by character: a match is
\* an LF followed by ".", with the CR before it, if there is one
DotStuffAt(s, i) ==
    IF s[i] = "." /\ i > 1 /\ s[i - 1] = LF THEN <<".", ".">>
    ELSE IF /\ s[i] = LF
            /\ i < Len(s) /\ s[i + 1] = "."
            /\ ~(i > 1 /\ s[i - 1] = CR)
         THEN CRLF
    ELSE <<s[i]>>

\* dotStuff leaving the body as it is
dotStuff_Off(body) == body

\* dotStuff: body.replace(/\r?\n\./g, "\r\n..")
dotStuff(body) == Concat([i \in 1..Len(body) |-> DotStuffAt(body, i)])

----------------------------------------------------------------------------
(* Values of JavaScript: undefined, a string, an array of strings *)

Undefined == [kind |-> "undefined", val |-> <<>>]

Str(s) == [kind |-> "string", val |-> <<s>>]

Arr(xs) == [kind |-> "array", val |-> xs]

\* whether a value counts as true in a condition
Truthy(x) ==
    \/ x.kind = "array"
    \/ x.kind = "string" /\ x.val[1] # ""

\* what [].concat(x || []) appends
Items(x) == IF Truthy(x) THEN x.val ELSE <<>>

\* Array.isArray(x) ? x.join(", ") : x
ListOf(x) ==
    IF x.kind = "array"
    THEN join([i \in 1..Len(x.val) |-> <<x.val[i]>>], <<",", " ">>)
    ELSE IF x.kind = "string" THEN x.val
    ELSE <<"undefined">>

----------------------------------------------------------------------------
(* base64, joinHeaders, buildMime *)

\* Buffer.from(str, "utf8").toString("base64"): one-to-one, kept symbolic
base64(str) == <<"base64(">> \o str \o <<")">>

\* joinHeaders
joinHeaders(headers) ==
    join([i \in 1..Len(headers) |-> headers[i][1] \o <<":", " ">> \o headers[i][2]],
         CRLF)

\* one attachment part of buildMime
AttachmentPart(att, mixedBoundary) ==
    <<"--">> \o mixedBoundary \o CRLF
    \o <<"Content-Type: ">> \o att.contentType \o <<"; name=\"">>
    \o att.filename \o <<"\"">> \o CRLF
    \o <<"Content-Transfer-Encoding: base64">> \o CRLF
    \o <<"Content-Disposition: attachment; filename=\"">> \o att.filename
    \o <<"\"">> \o CRLF \o CRLF
    \o att.contentBase64 \o CRLF

RECURSIVE AttachmentParts(_, _)
AttachmentParts(atts, mixedBoundary) ==
    IF Len(atts) = 0 THEN <<>>
    ELSE AttachmentPart(Head(atts), mixedBoundary)
         \o AttachmentParts(Tail(atts), mixedBoundary)

\* buildMime; the date, the message id and the two boundaries are the
\* values the call drew
buildMime(m) ==
    LET toList == ListOf(m.to)
        ccList == IF Truthy(m.cc) THEN ListOf(m.cc) ELSE <<>>
        bccList == IF Truthy(m.bcc) THEN ListOf(m.bcc) ELSE <<>>
        headers ==
            << <<<<"From">>, <<m.from>>>>, <<<<"To">>, toList>> >>
            \o (IF ccList # <<>> THEN << <<<<"Cc">>, ccList>> >> ELSE <<>>)
            \o (IF bccList # <<>> THEN << <<<<"Bcc">>, bccList>> >> ELSE <<>>)
            \o << <<<<"Subject">>, m.subject>>,
                  <<<<"Date">>, <<"<date>">>>>,
                  <<<<"Message-ID">>, <<"<id@local>">>>>,
                  <<<<"MIME-Version">>, <<"1.0">>>> >>
        altBoundary == <<"alt_", "<r1>">>
        mixedBoundary == <<"mix_", "<r2>">>
        textPart ==
            <<"--">> \o altBoundary \o CRLF
            \o <<"Content-Type: text/plain; charset=\"utf-8\"">> \o CRLF
            \o <<"Content-Transfer-Encoding: 7bit">> \o CRLF \o CRLF
            \o m.text \o CRLF
        htmlPart ==
            <<"--">> \o altBoundary \o CRLF
            \o <<"Content-Type: text/html; charset=\"utf-8\"">> \o CRLF
            \o <<"Content-Transfer-Encoding: 7bit">> \o CRLF \o CRLF
            \o m.html \o CRLF
        altClosing == <<"--">> \o altBoundary \o <<"--">> \o CRLF
        altBody ==
            <<"Content-Type: multipart/alternative; boundary=\"">>
            \o altBoundary \o <<"\"">> \o CRLF \o CRLF
            \o textPart \o htmlPart \o altClosing
    IN IF Len(m.attachments) = 0
       THEN joinHeaders(headers) \o CRLF \o altBody
       ELSE joinHeaders(headers) \o CRLF
            \o <<"Content-Type: multipart/mixed; boundary=\"">>
            \o mixedBoundary \o <<"\"">> \o CRLF \o CRLF
            \o <<"--">> \o mixedBoundary \o CRLF \o altBody
            \o AttachmentParts(m.attachments, mixedBoundary)
            \o <<"--">> \o mixedBoundary \o <<"--">> \o CRLF

----------------------------------------------------------------------------
(* send(): what runs between two suspensions *)

sSTARTTLS == <<"S", "T", "A", "R", "T", "T", "L", "S">>
sAUTH == <<"A", "U", "T", "H">>
sPLAIN == <<"P", "L", "A", "I", "N">>
sLOGIN == <<"L", "O", "G", "I", "N">>

\* resp.lines.some(l => l.toUpperCase().includes("STARTTLS"))
supportsStartTLS(lines) ==
    \E i \in 1..Len(lines) : includes(toUpperCase(lines[i]), sSTARTTLS)

\* /AUTH\b/i.test(l)
TestAuthWord(l) ==
    \E i \in 1..Len(l) :
        /\ OccursAt(toUpperCase(l), sAUTH, i)
        /\ (i + 4 > Len(l) \/ ~IsWordChar(l[i + 4]))

\* resp.lines.some(l => /AUTH\b/i.test(l) && /LOGIN/i.test(l))
supportsAuthLogin(lines) ==
    \E i \in 1..Len(lines) :
        TestAuthWord(lines[i]) /\ includes(toUpperCase(lines[i]), sLOGIN)

\* resp.lines.some(l => /AUTH\b/i.test(l) && /PLAIN/i.test(l))
supportsAuthPlain(lines) ==
    \E i \in 1..Len(lines) :
        TestAuthWord(lines[i]) /\ includes(toUpperCase(lines[i]), sPLAIN)

\* recipients with bcc taken before cc
recipients_BccBeforeCc == Items(msg.to) \o Items(msg.bcc) \o Items(msg.cc)

\* const recipients
recipients == Items(msg.to) \o Items(msg.cc) \o Items(msg.bcc)

\* the operations of one continuation
Write(data) == [op |-> "write", data |-> data]
Read == [op |-> "readResponse"]
Throw(e) == [op |-> "throw", error |-> e]
RemoveAllData == [op |-> "removeAllListeners"]
TlsConnect == [op |-> "tls.connect"]
Rebind == [op |-> "rebind"]
\* the executor of the upgrade promise, which runs without suspending
Upgrade == <<RemoveAllData, TlsConnect, Rebind>>
End == [op |-> "end"]

\* a continuation: the operations it performs, in order, where it suspends
\* or ends, and the loop index it leaves
Out(p, ops, i) == [pc |-> p, ops |-> ops, ri |-> i]

Fail(e) == Out("failed", <<Throw(e)>>, ri)

\* 5) MAIL FROM
MailFromStep ==
    Out("mailfrom",
        <<Write(<<"MAIL FROM:<", msg.from, ">">> \o CRLF), Read>>, ri)

\* 4) AUTH (se user/pass)
AuthStep(r) ==
    IF cfg.user # "" /\ cfg.pass # ""
    THEN IF supportsAuthPlain(r.lines)
         THEN Out("authplain",
                  <<Write(<<"AUTH PLAIN ">>
                          \o base64(<<"NUL", cfg.user, "NUL", cfg.pass>>)
                          \o CRLF), Read>>, ri)
         ELSE IF supportsAuthLogin(r.lines)
         THEN Out("authlogin", <<Write(<<"AUTH LOGIN">> \o CRLF), Read>>, ri)
         ELSE Fail("Servidor nao anuncia AUTH PLAIN/Login")
    ELSE MailFromStep

\* the STARTTLS step left out: the session goes on in plaintext
StartTlsStep_Skipped(r) == AuthStep(r)

\* 3) STARTTLS se for porta 587 e nao-secure
StartTlsStep(r) ==
    IF ~cfg.secure /\ supportsStartTLS(r.lines)
    THEN Out("starttls", <<Write(<<"STARTTLS">> \o CRLF), Read>>, ri)
    ELSE AuthStep(r)

\* 1) Banner, then the EHLO write
AfterBanner(r) ==
    IF r.code # 220 THEN Fail("Falha no banner SMTP")
    ELSE Out("ehlo", <<Write(<<"EHLO ", cfg.helo>> \o CRLF), Read>>, ri)

\* 2) EHLO: the reply to EHLO
AfterEhlo(r) ==
    IF r.code # 250
    THEN Out("helo", <<Write(<<"HELO ", cfg.helo>> \o CRLF), Read>>, ri)
    ELSE StartTlsStep(r)

\* the HELO fallback tried again after a refused HELO
AfterHelo_Resends(r) ==
    IF r.code # 250
    THEN Out("helo", <<Write(<<"HELO ", cfg.helo>> \o CRLF), Read>>, ri)
    ELSE StartTlsStep(r)

\* 2) EHLO: the reply to the HELO fallback
AfterHelo(r) ==
    IF r.code # 250 THEN Fail("HELO/EHLO falhou") ELSE StartTlsStep(r)

\* the reply to STARTTLS with its code left unchecked
AfterStartTls_Unchecked(r) == Out("upgrade", Upgrade, ri)

\* the reply to STARTTLS, with only the data listeners taken off before
\* send() suspends
AfterStartTls_DetachOnly(r) ==
    IF r.code # 220 THEN Fail("STARTTLS falhou")
    ELSE Out("upgrade", <<RemoveAllData>>, ri)

\* the reply to STARTTLS
AfterStartTls(r) ==
    IF r.code # 220 THEN Fail("STARTTLS falhou")
    ELSE Out("upgrade", Upgrade, ri)

\* EHLO novamente apos STARTTLS
AfterUpgrade ==
    Out("ehlo2", <<Write(<<"EHLO ", cfg.helo>> \o CRLF), Read>>, ri)

AfterEhlo2(r) ==
    IF r.code # 250 THEN Fail("EHLO pos-STARTTLS falhou") ELSE AuthStep(r)

AfterAuthPlain(r) ==
    IF r.code # 235 THEN Fail("AUTH PLAIN falhou") ELSE MailFromStep

AfterAuthLogin(r) ==
    IF r.code # 334 THEN Fail("AUTH LOGIN nao aceito")
    ELSE Out("authuser", <<Write(base64(<<cfg.user>>) \o CRLF), Read>>, ri)

AfterAuthUser(r) ==
    IF r.code # 334 THEN Fail("Usuario nao aceito")
    ELSE Out("authpass", <<Write(base64(<<cfg.pass>>) \o CRLF), Read>>, ri)

AfterAuthPass(r) ==
    IF r.code # 235 THEN Fail("Senha nao aceita") ELSE MailFromStep

\* 6) RCPT TO: the loop head for recipient i; 7) DATA when the loop is over
RcptStep(i) ==
    IF i <= Len(recipients)
    THEN Out("rcpt",
             <<Write(<<"RCPT TO:<", recipients[i], ">">> \o CRLF), Read>>, i)
    ELSE Out("data", <<Write(<<"DATA">> \o CRLF), Read>>, i)

AfterMailFrom(r) ==
    IF r.code # 250 THEN Fail("MAIL FROM falhou") ELSE RcptStep(1)

\* the RCPT TO loop going on to the next recipient after a refusal
AfterRcpt_SkipsRefused(r) == RcptStep(ri + 1)

AfterRcpt(r) ==
    IF r.code # 250 /\ r.code # 251 THEN Fail("RCPT TO falhou")
    ELSE RcptStep(ri + 1)

\* 8) Corpo MIME: what is written after the 354
BodyData == dotStuff(normalize(buildMime(msg))) \o CRLF \o <<".">> \o CRLF

\* the body and QUIT written in one go, without the wait between them
AfterData_Pipelined(r) ==
    IF r.code # 354 THEN Fail("DATA nao aceito")
    ELSE Out("quit", <<Write(BodyData), Write(<<"QUIT">> \o CRLF), Read>>, ri)

AfterData(r) ==
    IF r.code # 354 THEN Fail("DATA nao aceito")
    ELSE Out("body", <<Write(BodyData), Read>>, ri)

\* 9) QUIT
AfterBody(r) ==
    IF r.code # 250 THEN Fail("Envio do corpo falhou")
    ELSE Out("quit", <<Write(<<"QUIT">> \o CRLF), Read>>, ri)

AfterQuit(r) == Out("done", <<End>>, ri)

\* the head of send(): the two checks, the connect and the banner wait
SendStart ==
    IF msg.from = "" THEN Fail("Campo 'from' e obrigatorio")
    ELSE IF Len(recipients) = 0
    THEN Fail("Ao menos um destinatario e obrigatorio")
    ELSE Out("banner", <<[op |-> "connect"], Read>>, ri)

----------------------------------------------------------------------------
(* The inputs of the session *)

DefaultCfg ==
    [host |-> "h", secure |-> FALSE, user |-> "", pass |-> "",
     helo |-> "localhost"]

Cfgs ==
    [host : {"h"}, secure : BOOLEAN, user : {"", "u"}, pass : {"", "p"},
     helo : {"localhost"}]

\* the to arrays: a, b, a, ... up to MaxTo addresses
ToArrays ==
    {Arr([i \in 1..n |-> IF i % 2 = 1 THEN "a" ELSE "b"]) : n \in 0..MaxTo}

ToVals == {Undefined, Str(""), Str("a")} \cup ToArrays

\* cc and bcc: both absent, or one address each
CcBccVals == {<<Undefined, Undefined>>, <<Arr(<<"a">>), Arr(<<"b">>)>>}

MsgOf(from, to, cc, bcc) ==
    [from |-> from, to |-> to, cc |-> cc, bcc |-> bcc, subject |-> <<"s">>,
     text |-> <<"h", "i">>, html |-> <<>>, attachments |-> <<>>]

\* every message shape, sent with the default configuration
Msgs ==
    {MsgOf(f, t, cb[1], cb[2]) : f \in {"", "f"}, t \in ToVals, cb \in CcBccVals}

\* the message every configuration is tried with
CfgMsgs == {MsgOf("f", Arr(<<"a">>), Undefined, Undefined)}

Inputs ==
    {<<c, m>> : c \in Cfgs, m \in CfgMsgs}
    \cup {<<DefaultCfg, m>> : m \in Msgs}

----------------------------------------------------------------------------
(* What the server may send: each element is one chunk of a "data" event *)

Ln(code, sep, text) == code \o <<sep>> \o text \o CRLF

c220 == <<"2", "2", "0">>
c235 == <<"2", "3", "5">>
c250 == <<"2", "5", "0">>
c251 == <<"2", "5", "1">>
c334 == <<"3", "3", "4">>
c354 == <<"3", "5", "4">>
c550 == <<"5", "5", "0">>

\* chunks that end with a complete final line
ReplyChunks ==
    {Ln(c220, " ", <<>>),
     Ln(c250, " ", <<>>),
     Ln(c250, "-", sSTARTTLS)
        \o Ln(c250, " ", sAUTH \o <<" ">> \o sPLAIN \o <<" ">> \o sLOGIN),
     Ln(c250, " ", sAUTH \o <<" ">> \o sLOGIN),
     Ln(c250, " ", sAUTH \o sPLAIN),
     Ln(c235, " ", <<>>),
     Ln(c334, " ", <<>>),
     Ln(c354, " ", <<>>),
     Ln(c251, " ", <<>>),
     Ln(c550, " ", <<>>),
     Ln(c550, "-", <<>>) \o Ln(c250, " ", <<>>),
     Ln(c250, " ", <<>>)
        \o Ln(c250, "-", sSTARTTLS \o <<" ">> \o sAUTH \o <<" ">> \o sPLAIN)}

\* chunks that complete no reply by themselves: a continuation line, and
\* a final line cut between its CR and its LF
PartChunks ==
    {Ln(c250, "-", <<"s", "t", "a", "r", "t", "t", "l", "s">>),
     c250 \o <<" ", CR>>}

\* what may follow a line that was cut after its CR: the LF that ends it,
\* or a whole line, which leaves the CR alone inside the text
TailChunks(buffer) == {<<LF>>, Ln(c250, " ", <<>>)}

\* the chunks the next "data" event may carry, given what the reader holds
Chunks(buffer) ==
    IF Len(buffer) > 0 /\ buffer[Len(buffer)] = CR
    THEN TailChunks(buffer)
    ELSE ReplyChunks \cup PartChunks

----------------------------------------------------------------------------
(* The session *)

HasOp(ops, name) == \E i \in 1..Len(ops) : ops[i].op = name

\* "W" for a write, "S" for a readResponse, in the order of the operations
Events(ops) ==
    LET s == SelectSeq(ops, LAMBDA o : o.op \in {"write", "readResponse"})
    IN [i \in 1..Len(s) |-> IF s[i].op = "write" THEN "W" ELSE "S"]

\* the writes of a continuation, each with the path it takes: the TLS
\* socket of an implicit-TLS session, or what socket.write is bound to
Writes(ops, t, i) ==
    LET s == SelectSeq(ops, LAMBDA o : o.op = "write")
    IN [k \in 1..Len(s) |->
            [data |-> s[k].data,
             via |-> IF t = "implicit" \/ i.write = "secured"
                     THEN "tls" ELSE "plain"]]

ErrorOf(ops) ==
    LET s == SelectSeq(ops, LAMBDA o : o.op = "throw") IN s[1].error

\* before the upgrade every method of socket is the socket's own
NoIO ==
    [write |-> "socket", on |-> "socket", once |-> "socket",
     setTimeout |-> "socket", wrapped |-> FALSE, hs |-> FALSE,
     stale |-> <<>>, late |-> FALSE, dropped |-> FALSE]

\* reader.remove() of the reader of w: socket.off is never rebound, so a
\* reader that subscribed through the rebound socket.on stays subscribed to
\* the upgraded transport, with the buffer it holds
Removed(i, w) ==
    IF i.on = "secured" THEN [i EXCEPT !.stale = Append(@, w.buffer)] ELSE i

\* what the operations of a continuation do to the bindings: tls.connect
\* takes over the transport, then the five assignments rebind the methods
Bindings(ops, i) ==
    LET r == HasOp(ops, "rebind")
    IN [i EXCEPT !.wrapped = @ \/ HasOp(ops, "tls.connect"),
                 !.write = IF r THEN "secured" ELSE @,
                 !.on = IF r THEN "secured" ELSE @,
                 !.once = IF r THEN "secured" ELSE @,
                 !.setTimeout = IF r THEN "secured" ELSE @]

\* run the continuation o: w is the wait it leaves behind, pre what happened
\* to that wait, t the transport state it runs in, i the bindings it finds
Run(o, w, pre, t, i) ==
    LET t2 == IF HasOp(o.ops, "connect")
              THEN (IF cfg.secure THEN "implicit" ELSE "none")
              ELSE IF HasOp(o.ops, "tls.connect") THEN "handshaking" ELSE t
    IN /\ pc' = o.pc
       /\ ri' = o.ri
       /\ tls' = t2
       /\ written' = written \o Writes(o.ops, t2, Bindings(o.ops, i))
       /\ trace' = trace \o pre \o Events(o.ops)
       /\ wait' = IF HasOp(o.ops, "readResponse") THEN NewWait
                  ELSE IF HasOp(o.ops, "removeAllListeners")
                  THEN [w EXCEPT !.attached = FALSE]
                  ELSE w
       /\ error' = IF HasOp(o.ops, "throw") THEN ErrorOf(o.ops) ELSE error
       /\ socket' = IF HasOp(o.ops, "connect") THEN "open"
                    ELSE IF HasOp(o.ops, "end") THEN "ended" ELSE socket
       /\ io' = Bindings(o.ops, i)
       /\ UNCHANGED <<cfg, msg, lr, rr, ds, cbs>>

\* a "data" event while send() awaits readResponse: the reader takes the
\* chunk, and so does every reader left subscribed; if the promise
\* resolved, send() resumes with K
OnReply(K(_)) ==
    /\ wait.state = "pending"
    /\ wait.attached
    /\ socket = "open"
    /\ \E chunk \in Chunks(wait.buffer) :
         LET w == Feed(wait, chunk)
             st == [k \in 1..Len(io.stale) |-> onData(io.stale[k], chunk)]
             i1 == [io EXCEPT
                       !.stale = [k \in 1..Len(st) |-> st[k].buffer],
                       !.late = \/ @
                                \/ w.late
                                \/ \E k \in 1..Len(st) : st[k].lines # <<>>]
         IN IF w.state = "resolved"
            THEN /\ resp' = Response(w)
                 /\ Run(K(Response(w)), w, <<"R">>, tls, Removed(i1, w))
                 /\ UNCHANGED partial
            ELSE /\ partial < MaxPartial
                 /\ wait' = w
                 /\ partial' = partial + 1
                 /\ io' = i1
                 /\ UNCHANGED <<cfg, msg, pc, socket, tls, resp, ri, written,
                                trace, error, lr, rr, ds, cbs>>

\* app.post("/send-email"): the 400 check, then send()
HttpRequest ==
    /\ pc = "idle"
    /\ IF cfg.host = "" \/ msg.from = "" \/ ~Truthy(msg.to)
       THEN /\ pc' = "rejected"
            /\ UNCHANGED <<cfg, msg, socket, tls, wait, resp, ri, written,
                           trace, error, partial, io, lr, rr, ds, cbs>>
       ELSE /\ Run(SendStart, wait, <<>>, tls, io)
            /\ UNCHANGED <<resp, partial>>

\* a call of send() by any other caller
ClientSend ==
    /\ pc = "idle"
    /\ Run(SendStart, wait, <<>>, tls, io)
    /\ UNCHANGED <<resp, partial>>

Banner == pc = "banner" /\ OnReply(AfterBanner)
Ehlo == pc = "ehlo" /\ OnReply(AfterEhlo)
Helo == pc = "helo" /\ OnReply(AfterHelo)
StartTls == pc = "starttls" /\ OnReply(AfterStartTls)
Ehlo2 == pc = "ehlo2" /\ OnReply(AfterEhlo2)
AuthPlain == pc = "authplain" /\ OnReply(AfterAuthPlain)
AuthLogin == pc = "authlogin" /\ OnReply(AfterAuthLogin)
AuthUser == pc = "authuser" /\ OnReply(AfterAuthUser)
AuthPass == pc = "authpass" /\ OnReply(AfterAuthPass)
MailFrom == pc = "mailfrom" /\ OnReply(AfterMailFrom)
RcptTo == pc = "rcpt" /\ OnReply(AfterRcpt)
Data == pc = "data" /\ OnReply(AfterData)
Body == pc = "body" /\ OnReply(AfterBody)
Quit == pc = "quit" /\ OnReply(AfterQuit)

\* the transport delivers bytes while send() awaits the upgrade: the TLS
\* layer that took over the transport reads them; with no TLS layer and no
\* "data" listener they are lost
HandshakeData ==
    /\ pc = "upgrade"
    /\ socket = "open"
    /\ ~io.hs
    /\ ~io.dropped
    /\ io' = IF io.wrapped THEN [io EXCEPT !.hs = TRUE]
             ELSE [io EXCEPT !.dropped = TRUE]
    /\ UNCHANGED <<cfg, msg, pc, socket, tls, wait, resp, ri, written, trace,
                   error, partial, lr, rr, ds, cbs>>

\* the callback of tls.connect({ socket }): the handshake is done, send()
\* resumes
UpgradeDone ==
    /\ pc = "upgrade"
    /\ socket = "open"
    /\ io.wrapped
    /\ io.hs
    /\ Run(AfterUpgrade, wait, <<>>, "secured", io)
    /\ UNCHANGED <<resp, partial>>

\* the transport or the handshake fails during the upgrade: the promise of
\* the upgrade has no reject path, the error callbacks of the earlier
\* waits reject promises that are settled, and the upgraded socket has no
\* "error" listener, so send() stays suspended or the process ends on the
\* unhandled "error"
UpgradeError ==
    /\ pc = "upgrade"
    /\ socket = "open"
    /\ socket' = "destroyed"
    /\ pc' \in {"upgrade", "crashed"}
    /\ UNCHANGED <<cfg, msg, tls, wait, resp, ri, written, trace, error,
                   partial, io, lr, rr, ds, cbs>>

\* the peer closes the transport: readResponse and send() listen to
\* neither "end" nor "close", and a closed socket has no timeout
PeerClose ==
    /\ socket = "open"
    /\ pc \notin {"idle", "rejected", "done", "failed", "off", "crashed"}
    /\ socket' = "closed"
    /\ UNCHANGED <<cfg, msg, pc, tls, wait, resp, ri, written, trace, error,
                   partial, io, lr, rr, ds, cbs>>

\* the callback of socket.setTimeout(20000, ...) while the wait is pending
Timeout ==
    /\ wait.state = "pending"
    /\ socket = "open"
    /\ Run(Fail("Timeout aguardando resposta SMTP"), Reject(wait), <<"X">>,
           tls, Removed(io, wait))
    /\ UNCHANGED <<resp, partial>>

\* the callback of socket.once("error", ...) while the wait is pending;
\* the runtime destroys a socket that emitted "error"
SocketError ==
    /\ wait.state = "pending"
    /\ socket = "open"
    /\ pc' = "failed"
    /\ wait' = Reject(wait)
    /\ trace' = trace \o <<"X">>
    /\ error' = "socket error"
    /\ socket' = "destroyed"
    /\ io' = Removed(io, wait)
    /\ UNCHANGED <<cfg, msg, tls, resp, ri, written, partial, lr, rr, ds, cbs>>

NoResp == [code |-> NULL, lines |-> <<>>]

LRIdle == [stream |-> <<>>, pos |-> 0, buffer |-> <<>>, emitted |-> <<>>]
RRIdle == [w |-> NoWait, seen |-> <<>>, more |-> FALSE, error |-> ""]
DSIdle == [pc |-> "idle", raw |-> <<>>, normalized |-> <<>>, stuffed |-> <<>>]
CBIdle == [waits |-> <<>>, errs |-> <<>>, tcb |-> <<>>, ecb |-> <<>>,
           ev |-> "none", dead |-> FALSE]

Init ==
    /\ \E in \in Inputs : cfg = in[1] /\ msg = in[2]
    /\ pc = "idle"
    /\ socket = "none"
    /\ tls = "none"
    /\ wait = NoWait
    /\ resp = NoResp
    /\ ri = 0
    /\ written = <<>>
    /\ trace = <<>>
    /\ error = ""
    /\ partial = 0
    /\ io = NoIO
    /\ lr = LRIdle
    /\ rr = RRIdle
    /\ ds = DSIdle
    /\ cbs = CBIdle

Next ==
    \/ HttpRequest
    \/ ClientSend
    \/ Banner
    \/ Ehlo
    \/ Helo
    \/ StartTls
    \/ HandshakeData
    \/ UpgradeDone
    \/ UpgradeError
    \/ Ehlo2
    \/ AuthPlain
    \/ AuthLogin
    \/ AuthUser
    \/ AuthPass
    \/ MailFrom
    \/ RcptTo
    \/ Data
    \/ Body
    \/ Quit
    \/ Timeout
    \/ SocketError
    \/ PeerClose

Spec == Init /\ [][Next]_vars

\* the same, with the callback of tls.connect run once the handshake is
\* done
SpecFair == Spec /\ WF_vars(UpgradeDone)

----------------------------------------------------------------------------
(* One line reader alone: a byte stream delivered in chunks of any sizes *)

\* all sequences over S of length at most n
SeqsUpTo(S, n) == UNION {[1..k -> S] : k \in 0..n}

StreamBytes == {"a", CR, LF, "C3", "A9"}

\* the session is not running
SessionOff ==
    /\ cfg = DefaultCfg
    /\ msg = MsgOf("f", Arr(<<"a">>), Undefined, Undefined)
    /\ pc = "off"
    /\ socket = "none"
    /\ tls = "none"
    /\ wait = NoWait
    /\ resp = NoResp
    /\ ri = 0
    /\ written = <<>>
    /\ trace = <<>>
    /\ error = ""
    /\ partial = 0
    /\ io = NoIO

InitLR ==
    /\ SessionOff
    /\ \E s \in SeqsUpTo(StreamBytes, MaxStream) :
         lr = [stream |-> s, pos |-> 0, buffer |-> <<>>, emitted |-> <<>>]
    /\ rr = RRIdle
    /\ ds = DSIdle
    /\ cbs = CBIdle

\* one "data" event: the next n bytes of the stream reach onData
LRData ==
    \E n \in 1..(Len(lr.stream) - lr.pos) :
        LET d == onData(lr.buffer, SubSeq(lr.stream, lr.pos + 1, lr.pos + n))
        IN /\ lr' = [lr EXCEPT !.pos = lr.pos + n,
                               !.buffer = d.buffer,
                               !.emitted = lr.emitted \o d.lines]
           /\ UNCHANGED <<sessionVars, rr, ds, cbs>>

SpecLR == InitLR /\ [][LRData]_vars

----------------------------------------------------------------------------
(* One response wait alone: its listener called line by line *)

\* the lines the reader may emit
RRLines ==
    {c250 \o <<"-", "a">>,
     c250 \o <<" ", "b">>,
     c550 \o <<"-">>,
     c550 \o <<" ">>,
     <<"h", "i">>,
     c250,
     c250 \o <<" ", CR>>}

InitRR ==
    /\ SessionOff
    /\ lr = LRIdle
    /\ rr = [w |-> NewWait, seen |-> <<>>, more |-> FALSE, error |-> ""]
    /\ ds = DSIdle
    /\ cbs = CBIdle

\* the reader emits one more line to onLine; more says whether the chunk
\* being drained holds a further line.  A detached reader emits only what
\* is left of the chunk it was draining.
RRLine ==
    /\ Len(rr.seen) < MaxLines
    /\ rr.w.attached \/ rr.more
    /\ \E line \in RRLines, m \in BOOLEAN :
         rr' = [rr EXCEPT !.w = onLine(rr.w, line),
                          !.seen = Append(rr.seen, line),
                          !.more = m]
    /\ UNCHANGED <<sessionVars, lr, ds, cbs>>

\* the timeout callback of readResponse
RRTimeout ==
    /\ rr.w.state = "pending"
    /\ ~rr.more
    /\ rr' = [rr EXCEPT !.w = Reject(rr.w),
                        !.error = "Timeout aguardando resposta SMTP"]
    /\ UNCHANGED <<sessionVars, lr, ds, cbs>>

\* the error callback of readResponse
RRError ==
    /\ rr.w.state = "pending"
    /\ ~rr.more
    /\ rr' = [rr EXCEPT !.w = Reject(rr.w), !.error = "socket error"]
    /\ UNCHANGED <<sessionVars, lr, ds, cbs>>

NextRR == RRLine \/ RRTimeout \/ RRError

SpecRR == InitRR /\ [][NextRR]_vars

----------------------------------------------------------------------------
(* One body alone: normalised, then dot-stuffed, as step 8 of send() does *)

BodyChars == {"a", ".", CR, LF}

InitDS ==
    /\ SessionOff
    /\ lr = LRIdle
    /\ rr = RRIdle
    /\ \E raw \in SeqsUpTo(BodyChars, MaxBody) :
         ds = [pc |-> "raw", raw |-> raw, normalized |-> <<>>,
               stuffed |-> <<>>]
    /\ cbs = CBIdle

\* const normalized = raw.replace(/\r?\n/g, CRLF)
DSNormalize ==
    /\ ds.pc = "raw"
    /\ ds' = [ds EXCEPT !.pc = "normalized", !.normalized = normalize(ds.raw)]
    /\ UNCHANGED <<sessionVars, lr, rr, cbs>>

\* const stuffed = dotStuff(normalized)
DSDotStuff ==
    /\ ds.pc = "normalized"
    /\ ds' = [ds EXCEPT !.pc = "stuffed", !.stuffed = dotStuff(ds.normalized)]
    /\ UNCHANGED <<sessionVars, lr, rr, cbs>>

NextDS == DSNormalize \/ DSDotStuff

SpecDS == InitDS /\ [][NextDS]_vars

----------------------------------------------------------------------------
(* Step 8 of send() alone, for messages of any content: buildMime, the    *)
(* normalisation, dotStuff, and the write of the body                     *)

\* the fields of a message that carry free content
ContentFields == {"subject", "text", "html", "attachment"}

\* the message with content c in field f
MsgWith(f, c) ==
    LET m == MsgOf("f", Arr(<<"a">>), Undefined, Undefined)
    IN CASE f = "subject" -> [m EXCEPT !.subject = c]
         [] f = "text" -> [m EXCEPT !.text = c]
         [] f = "html" -> [m EXCEPT !.html = c]
         [] f = "attachment" ->
               [m EXCEPT !.attachments =
                   <<[filename |-> <<"n">>, contentBase64 |-> c,
                      contentType |-> <<"t">>]>>]

InitBody ==
    /\ cfg = DefaultCfg
    /\ \E f \in ContentFields, c \in SeqsUpTo(BodyChars, MaxBody) :
         msg = MsgWith(f, c)
    /\ pc = "off"
    /\ socket = "none"
    /\ tls = "none"
    /\ wait = NoWait
    /\ resp = NoResp
    /\ ri = 0
    /\ written = <<>>
    /\ trace = <<>>
    /\ error = ""
    /\ partial = 0
    /\ io = NoIO
    /\ lr = LRIdle
    /\ rr = RRIdle
    /\ ds = [pc |-> "message", raw |-> <<>>, normalized |-> <<>>,
             stuffed |-> <<>>]
    /\ cbs = CBIdle

\* const raw = buildMime({ from, to, cc, bcc, subject, text, html, attachments })
DSBuildMime ==
    /\ ds.pc = "message"
    /\ ds' = [ds EXCEPT !.pc = "raw", !.raw = buildMime(msg)]
    /\ UNCHANGED <<sessionVars, lr, rr, cbs>>

\* socket.write(stuffed + CRLF + `.${CRLF}`)
DSWrite ==
    /\ ds.pc = "stuffed"
    /\ ds' = [ds EXCEPT !.pc = "written"]
    /\ written' = <<[data |-> ds.stuffed \o CRLF \o <<".">> \o CRLF,
                     via |-> "plain"]>>
    /\ UNCHANGED <<cfg, msg, pc, socket, tls, wait, resp, ri, trace, error,
                   partial, io, lr, rr, cbs>>

NextBody == DSBuildMime \/ DSNormalize \/ DSDotStuff \/ DSWrite

SpecBody == InitBody /\ [][NextBody]_vars

----------------------------------------------------------------------------
(* The waits of one send, one after the other, with the callbacks each    *)
(* readResponse leaves registered on the socket                           *)

\* the lines a reader may emit
CBLines ==
    {c250 \o <<" ">>, c550 \o <<" ">>, c250 \o <<"-">>}

InitCB ==
    /\ SessionOff
    /\ lr = LRIdle
    /\ rr = RRIdle
    /\ ds = DSIdle
    /\ cbs = CBIdle

\* readResponse(socket): a new promise with its own lines and code, a new
\* reader, socket.setTimeout(20000, cb) and socket.once("error", cb);
\* send() calls it once the wait before it resolved
CBStart ==
    /\ ~cbs.dead
    /\ Len(cbs.waits) < MaxWaits
    /\ Len(cbs.waits) > 0 => cbs.waits[Len(cbs.waits)].state = "resolved"
    /\ LET n == Len(cbs.waits) + 1
       IN cbs' = [cbs EXCEPT !.waits = Append(@, NewWait),
                             !.errs = Append(@, ""),
                             !.tcb = Append(@, n),
                             !.ecb = Append(@, n),
                             !.ev = "start"]
    /\ UNCHANGED <<sessionVars, lr, rr, ds>>

\* the reader of the current wait emits a line
CBLine ==
    /\ ~cbs.dead
    /\ Len(cbs.waits) > 0
    /\ LET n == Len(cbs.waits)
       IN /\ cbs.waits[n].attached
          /\ Len(cbs.waits[n].lines) < MaxLines
          /\ \E line \in CBLines :
                cbs' = [cbs EXCEPT !.waits[n] = onLine(@, line),
                                   !.ev = "line"]
    /\ UNCHANGED <<sessionVars, lr, rr, ds>>

\* a line reaches the listener of a wait whose reader was removed: a further
\* line of the chunk that held the final line, or data read by a reader the
\* upgraded socket keeps subscribed
CBLate ==
    /\ ~cbs.dead
    /\ \E k \in 1..Len(cbs.waits) :
          /\ ~cbs.waits[k].attached
          /\ ~cbs.waits[k].late
          /\ \E line \in CBLines :
                cbs' = [cbs EXCEPT
                           !.waits[k] = onLine([@ EXCEPT !.late = TRUE], line),
                           !.ev = "late"]
    /\ UNCHANGED <<sessionVars, lr, rr, ds>>

\* the callbacks ids run, each rejecting the promise of its own wait
FireAll(ws, ids) ==
    [k \in 1..Len(ws) |->
        IF \E j \in 1..Len(ids) : ids[j] = k THEN Reject(ws[k]) ELSE ws[k]]

\* the errors after the callbacks ran: e for each wait they settled
ErrsAfter(ws, ws2, errs, e) ==
    [k \in 1..Len(ws) |-> IF ws2[k].state # ws[k].state THEN e ELSE errs[k]]

\* the socket emits "timeout": every callback given to setTimeout and not
\* yet run runs, once
CBTimeout ==
    /\ ~cbs.dead
    /\ cbs.tcb # <<>>
    /\ LET ws2 == FireAll(cbs.waits, cbs.tcb)
       IN cbs' = [cbs EXCEPT
                     !.waits = ws2,
                     !.errs = ErrsAfter(cbs.waits, ws2, cbs.errs,
                                        "Timeout aguardando resposta SMTP"),
                     !.tcb = <<>>,
                     !.ev = "timeout"]
    /\ UNCHANGED <<sessionVars, lr, rr, ds>>

\* the socket emits "error": every callback given to once("error") runs,
\* and the socket is destroyed
CBError ==
    /\ ~cbs.dead
    /\ Len(cbs.waits) > 0
    /\ LET ws2 == FireAll(cbs.waits, cbs.ecb)
       IN cbs' = [cbs EXCEPT
                     !.waits = ws2,
                     !.errs = ErrsAfter(cbs.waits, ws2, cbs.errs,
                                        "socket error"),
                     !.ecb = <<>>,
                     !.ev = "error",
                     !.dead = TRUE]
    /\ UNCHANGED <<sessionVars, lr, rr, ds>>

NextCB == CBStart \/ CBLine \/ CBLate \/ CBTimeout \/ CBError

SpecCB == InitCB /\ [][NextCB]_vars

----------------------------------------------------------------------------
(* What the claims speak of *)

\* in this step a response wait resolved
WaitResolvedNow ==
    /\ Len(trace') > Len(trace)
    /\ trace'[Len(trace) + 1] = "R"

\* the data of the writes this step added
NewData ==
    LET ws == SubSeq(written', Len(written) + 1, Len(written'))
    IN [i \in 1..Len(ws) |-> ws[i].data]

\* the text of a written command line
CmdLine(text) == text \o <<CR, LF>>

\* the reply codes each step requires
RequiredCodes(step) ==
    CASE step = "banner" -> {220}
      [] step = "ehlo" -> {250}
      [] step = "helo" -> {250}
      [] step = "starttls" -> {220}
      [] step = "ehlo2" -> {250}
      [] step = "authplain" -> {235}
      [] step = "authlogin" -> {334}
      [] step = "authuser" -> {334}
      [] step = "authpass" -> {235}
      [] step = "mailfrom" -> {250}
      [] step = "rcpt" -> {250, 251}
      [] step = "data" -> {354}
      [] step = "body" -> {250}

\* the addresses of one field of the message, in order
AddressesOf(x) ==
    IF x.kind = "array" THEN x.val
    ELSE IF x.kind = "string" /\ x.val # <<"">> THEN x.val
    ELSE <<>>

\* Recipients: to, then cc, then bcc, nothing dropped
Rcpts == AddressesOf(msg.to) \o AddressesOf(msg.cc) \o AddressesOf(msg.bcc)

IsRcptWrite(d) == Len(d) > 0 /\ d[1] = "RCPT TO:<"

----------------------------------------------------------------------------
(* C1: on every exit path of send after the transport was opened, the     *)
(* transport is closed or destroyed when send has ended.                  *)
C1_TransportReleased ==
    (pc \in {"done", "failed"} /\ socket # "none")
        => socket \in {"ended", "destroyed"}

----------------------------------------------------------------------------
(* C3: a command is written only after the wait before it resolved: the   *)
(* banner wait starts and resolves before the first write, and between    *)
(* two consecutive writes exactly one wait started and resolved.          *)
C3_NoPipelining ==
    \A i \in 1..Len(trace) :
        trace[i] = "W" =>
            /\ i >= 3
            /\ trace[i - 1] = "R"
            /\ trace[i - 2] = "S"
            /\ (i = 3 \/ trace[i - 3] = "W")

\* a send that wrote its QUIT: every command of a whole session is in trace
C3_Witness ==
    /\ pc = "quit"
    /\ tls = "secured"
    /\ Len(written) >= 7

----------------------------------------------------------------------------
(* C4: at every step other than the first EHLO, a reply whose code is not *)
(* in the step's required set makes send fail, and from then on nothing   *)
(* more is written.                                                       *)
C4_Steps ==
    {"banner", "helo", "starttls", "ehlo2", "authplain", "authlogin",
     "authuser", "authpass", "mailfrom", "rcpt", "data", "body"}

C4_Step ==
    /\ (WaitResolvedNow /\ pc \in C4_Steps /\ resp'.code \notin RequiredCodes(pc))
          => (pc' = "failed" /\ written' = written)
    /\ pc = "failed" => (pc' = "failed" /\ written' = written)

\* C4: at every step but the first EHLO a reply with a code outside the
\* step's set makes send fail, and nothing is written after it
C4_UnexpectedCodeIsFatal == [][C4_Step]_vars

\* the reply to the EHLO after the upgrade was refused
C4_Witness ==
    /\ pc = "failed"
    /\ error = "EHLO pos-STARTTLS falhou"
    /\ resp.code = 550

----------------------------------------------------------------------------
(* C5: if the reply to the i-th RCPT TO is neither 250 nor 251, no RCPT   *)
(* TO for a later recipient, no DATA and no body is ever written, and     *)
(* send fails.                                                            *)
C5_Step ==
    /\ (WaitResolvedNow /\ pc = "rcpt" /\ resp'.code \notin {250, 251})
          => /\ pc' = "failed"
             /\ written' = written
             /\ LET rc == SelectSeq([k \in 1..Len(written) |-> written[k].data],
                                    IsRcptWrite)
                IN rc = [k \in 1..ri |-> CmdLine(<<"RCPT TO:<", Rcpts[k], ">">>)]
             /\ IsRcptWrite(written[Len(written)].data)
    /\ (pc = "failed" /\ error = "RCPT TO falhou") => written' = written

\* C5: a refused RCPT TO ends the send in failure, with no later RCPT TO,
\* no DATA and no body written
C5_RcptFailureAborts == [][C5_Step]_vars

\* the second of at least three recipients was refused
C5_Witness ==
    /\ pc = "failed"
    /\ error = "RCPT TO falhou"
    /\ ri = 2
    /\ Len(Rcpts) >= 3
    /\ resp.code = 550

----------------------------------------------------------------------------
(* C6: when from is missing or the to list is empty, whatever cc and bcc  *)
(* hold, send fails before a transport is opened and writes nothing.      *)
C6_ValidationBeforeIO ==
    (msg.from = "" \/ AddressesOf(msg.to) = <<>>)
        => /\ socket = "none"
           /\ written = <<>>
           /\ pc \in {"idle", "off", "failed", "rejected"}

----------------------------------------------------------------------------
(* What a reply advertises *)

\* word occurs in some of the lines, letter case ignored
Advertises(lines, word) ==
    \E n \in 1..Len(lines) :
        \E i \in 1..Len(lines[n]) :
            \A k \in 1..Len(word) :
                /\ i + k - 1 <= Len(lines[n])
                /\ ToUpperChar(lines[n][i + k - 1]) = word[k]

\* the line holds the word AUTH, ending at a word boundary
IsAuthLine(l) ==
    \E i \in 1..Len(l) :
        /\ Advertises(<<SubSeq(l, i, Len(l))>>, <<"A", "U", "T", "H">>)
        /\ i + 3 <= Len(l)
        /\ \A k \in 1..4 : ToUpperChar(l[i + k - 1]) = <<"A", "U", "T", "H">>[k]
        /\ (i + 4 > Len(l) \/ ~IsWordChar(l[i + 4]))

\* some AUTH line names the mechanism
AdvertisesAuth(lines, mech) ==
    \E n \in 1..Len(lines) :
        IsAuthLine(lines[n]) /\ Advertises(<<lines[n]>>, mech)

\* a line with three digits, a space, and text without a line end
IsFinalLine(l) ==
    /\ Len(l) >= 4
    /\ {l[1], l[2], l[3]} \subseteq Digits
    /\ l[4] = " "
    /\ \A i \in 5..Len(l) : l[i] # CR /\ l[i] # LF

\* the index of the first final line among ls, 0 if there is none
FirstFinal(ls) ==
    LET finals == {i \in 1..Len(ls) : IsFinalLine(ls[i])}
    IN IF finals = {} THEN 0 ELSE CHOOSE i \in finals : \A j \in finals : i <= j

\* the lines of the reply the Response r was resolved by: those up to and
\* including its first final line
ReplyLines(r) == SubSeq(r.lines, 1, FirstFinal(r.lines))

HasCredentials == cfg.user # "" /\ cfg.pass # ""

EhloLine == CmdLine(<<"EHLO ", cfg.helo>>)
StartTlsLine == CmdLine(<<"STARTTLS">>)
AuthPlainLine ==
    CmdLine(<<"AUTH PLAIN ", "base64(", "NUL", cfg.user, "NUL", cfg.pass, ")">>)
AuthLoginLine == CmdLine(<<"AUTH LOGIN">>)
MailFromLine == CmdLine(<<"MAIL FROM:<", msg.from, ">">>)
RcptLine(i) == CmdLine(<<"RCPT TO:<", Rcpts[i], ">">>)
DataLine == CmdLine(<<"DATA">>)
QuitLine == CmdLine(<<"QUIT">>)

\* d ends with the end-of-data terminator: CRLF, ".", CRLF
EndsWithTerminator(d) ==
    /\ Len(d) >= 5
    /\ SubSeq(d, Len(d) - 4, Len(d)) = <<CR, LF, ".", CR, LF>>

\* no HELO was written: the first EHLO got its 250
NoHeloWritten ==
    \A k \in 1..Len(written) : written[k].data # CmdLine(<<"HELO ", cfg.helo>>)

----------------------------------------------------------------------------
(* C2: in a run where every awaited reply carries its required code, the  *)
(* writes are exactly EHLO; STARTTLS and a second EHLO iff the session is *)
(* not implicit-TLS and the greet reply advertises STARTTLS; the AUTH     *)
(* exchange iff credentials are configured; MAIL FROM; one RCPT TO per    *)
(* recipient in to, cc, bcc order; DATA; the body with its terminator;    *)
(* QUIT; and send reports success.                                        *)
(*                                                                        *)
(* The parameter says how a reply that advertises neither AUTH PLAIN nor  *)
(* AUTH LOGIN is read when credentials are configured: as amended such a  *)
(* run is not spoken of; as first stated the session goes on.             *)

\* what must be written after the greet reply r once STARTTLS is settled
C2_AuthOrMail(r, d, amended) ==
    IF HasCredentials
    THEN IF AdvertisesAuth(r.lines, sPLAIN) THEN d = <<AuthPlainLine>>
         ELSE IF AdvertisesAuth(r.lines, sLOGIN) THEN d = <<AuthLoginLine>>
         ELSE amended \/ d \in {<<AuthPlainLine>>, <<AuthLoginLine>>, <<MailFromLine>>}
    ELSE d = <<MailFromLine>>

\* what the step that received reply r at step must write
C2_Writes(step, r, d, amended) ==
    CASE step = "banner" -> d = <<EhloLine>>
      [] step = "ehlo" ->
            IF ~cfg.secure /\ Advertises(r.lines, sSTARTTLS)
            THEN d = <<StartTlsLine>>
            ELSE C2_AuthOrMail(r, d, amended)
      [] step = "starttls" -> d = <<>>
      [] step = "ehlo2" -> C2_AuthOrMail(r, d, amended)
      [] step = "authplain" -> d = <<MailFromLine>>
      [] step = "authlogin" -> d = <<CmdLine(<<"base64(", cfg.user, ")">>)>>
      [] step = "authuser" -> d = <<CmdLine(<<"base64(", cfg.pass, ")">>)>>
      [] step = "authpass" -> d = <<MailFromLine>>
      [] step = "mailfrom" -> d = <<RcptLine(1)>>
      [] step = "rcpt" ->
            IF ri < Len(Rcpts) THEN d = <<RcptLine(ri + 1)>> ELSE d = <<DataLine>>
      [] step = "data" -> Len(d) = 1 /\ EndsWithTerminator(d[1])
      [] step = "body" -> d = <<QuitLine>>
      [] step = "quit" -> d = <<>>
      [] OTHER -> FALSE

\* the run is one the amended claim speaks of
C2_InScope(step, r, amended) ==
    ~(/\ amended
      /\ HasCredentials
      /\ \/ step = "ehlo2"
         \/ step = "ehlo" /\ ~(~cfg.secure /\ Advertises(r.lines, sSTARTTLS))
      /\ ~AdvertisesAuth(r.lines, sPLAIN)
      /\ ~AdvertisesAuth(r.lines, sLOGIN))

C2_Step(amended) ==
    /\ (/\ WaitResolvedNow
        /\ NoHeloWritten
        /\ pc = "quit" \/ resp'.code \in RequiredCodes(pc)
        /\ C2_InScope(pc, resp', amended))
          => /\ C2_Writes(pc, resp', NewData, amended)
             /\ pc' # "failed"
             /\ (pc = "quit" => pc' = "done")
             /\ (pc = "starttls" => pc' = "upgrade")
    /\ (pc = "upgrade" /\ pc' = "ehlo2") => NewData = <<EhloLine>>
    /\ (~WaitResolvedNow /\ pc' # "ehlo2") => written' = written
    /\ pc' = "done" => (pc = "quit" /\ WaitResolvedNow)

----------------------------------------------------------------------------
(* C9: with credentials configured, the mechanism is chosen from the      *)
(* lines of the most recent greet reply: AUTH PLAIN whenever an AUTH line *)
(* advertises PLAIN, AUTH LOGIN only when LOGIN is advertised and PLAIN   *)
(* is not, and when neither is advertised send fails without writing an   *)
(* AUTH command or any later command.  The lines of a reply are the lines *)
(* up to and including its final line.                                    *)

\* the step that received the reply after which send reaches the AUTH step
C9_Chooses ==
    /\ WaitResolvedNow
    /\ HasCredentials
    /\ resp'.code = 250
    /\ pc \in {"ehlo", "helo", "ehlo2"}
    /\ pc' # "starttls"

C9_Step ==
    /\ C9_Chooses =>
          IF AdvertisesAuth(ReplyLines(resp'), sPLAIN)
          THEN NewData = <<AuthPlainLine>> /\ pc' = "authplain"
          ELSE IF AdvertisesAuth(ReplyLines(resp'), sLOGIN)
          THEN NewData = <<AuthLoginLine>> /\ pc' = "authlogin"
          ELSE /\ written' = written
               /\ pc' = "failed"
               /\ error' = "Servidor nao anuncia AUTH PLAIN/Login"
    /\ (\E k \in 1..Len(NewData) : NewData[k] \in {AuthPlainLine, AuthLoginLine})
          => C9_Chooses
    /\ error = "Servidor nao anuncia AUTH PLAIN/Login" => written' = written

\* C9: PLAIN when the reply advertises it, else LOGIN when the reply
\* advertises it, else failure with nothing written
C9_AuthMechanismChoice == [][C9_Step]_vars

----------------------------------------------------------------------------
(* C7: a response wait resolves exactly when the first line matching      *)
(* three digits, a separator, text, with a space as the separator, is     *)
(* emitted; continuation                                                  *)
(* lines and lines that do not match never resolve it.  The code of the   *)
(* result is the code of that line, whatever codes came before, and the   *)
(* lines are all lines observed, in arrival order, malformed ones too.    *)
C7_ResolvesAtFinalLine ==
    LET k == FirstFinal(rr.seen)
    IN /\ rr.w.lines = rr.seen
       /\ k = 0 => rr.w.state # "resolved"
       /\ k > 0 =>
            /\ rr.w.state = "resolved"
            /\ rr.w.rcode = 100 * DigitVal(rr.seen[k][1])
                            + 10 * DigitVal(rr.seen[k][2])
                            + DigitVal(rr.seen[k][3])

\* resolved by the third line, after a continuation line with another code
\* and a line without a code
C7_Witness ==
    /\ rr.w.state = "resolved"
    /\ rr.w.rcode = 250
    /\ rr.seen = <<c550 \o <<"-">>, <<"h", "i">>, c250 \o <<" ", "b">>>>

----------------------------------------------------------------------------
(* C8: however a byte stream is split into chunks, also between a CR and  *)
(* its LF, the line reader emits the lines it emits when the stream comes *)
(* as one chunk; a line is the text before a CRLF, without it, and what   *)
(* follows the last CRLF is kept and not emitted.                         *)
C8_ChunkBoundaryInvariance ==
    /\ \A i \in 1..Len(lr.emitted) : indexOfCRLF(lr.emitted[i]) = 0
    /\ indexOfCRLF(lr.buffer) = 0
    /\ lr.pos = Len(lr.stream) =>
          /\ lr.emitted = onData(<<>>, lr.stream).lines
          /\ lr.buffer = onData(<<>>, lr.stream).buffer

----------------------------------------------------------------------------
(* C10: dotStuff puts one "." before every line of a CRLF-normalised body *)
(* that begins with ".", the first line included, and leaves every other  *)
(* line as it is.                                                         *)

\* the lines of s: the text between its CRLFs
RECURSIVE C10_Lines(_)
C10_Lines(s) ==
    LET idx == indexOfCRLF(s)
    IN IF idx = 0 THEN <<s>>
       ELSE <<SubSeq(s, 1, idx - 1)>> \o C10_Lines(SubSeq(s, idx + 2, Len(s)))

\* C10: every line of the stuffed body is the line of the normalised body,
\* with one "." more when that line begins with "."
C10_DotStuffing ==
    ds.pc = "stuffed" =>
        LET in == C10_Lines(ds.normalized)
            out == C10_Lines(ds.stuffed)
        IN /\ Len(out) = Len(in)
           /\ \A i \in 1..Len(in) :
                out[i] = IF Len(in[i]) > 0 /\ in[i][1] = "."
                         THEN <<".">> \o in[i]
                         ELSE in[i]

----------------------------------------------------------------------------
(* C11: STARTTLS is written if and only if the session is not             *)
(* implicit-TLS and some line of the greet reply that carried 250         *)
(* contains STARTTLS, letter case ignored; when its reply is 220 the      *)
(* transport is upgraded and the next command written is EHLO, whose      *)
(* reply must be 250; when the condition is false no STARTTLS and no      *)
(* second EHLO is ever written.  The lines of a reply are the lines up to *)
(* and including its final line.                                          *)

HeloLine == CmdLine(<<"HELO ", cfg.helo>>)

\* the step that received the greet reply with its 250
GreetAccepted ==
    /\ WaitResolvedNow
    /\ pc \in {"ehlo", "helo"}
    /\ resp'.code = 250

\* this step wrote the command line d
WritesLine(d) == \E k \in 1..Len(NewData) : NewData[k] = d

C11_Step ==
    /\ GreetAccepted =>
          (WritesLine(StartTlsLine)
             <=> (~cfg.secure /\ Advertises(ReplyLines(resp'), sSTARTTLS)))
    /\ WritesLine(StartTlsLine) => (GreetAccepted /\ NewData = <<StartTlsLine>>)
    /\ (WaitResolvedNow /\ pc = "starttls" /\ resp'.code = 220)
          => (pc' = "upgrade" /\ tls' = "handshaking" /\ written' = written)
    /\ (pc = "upgrade" /\ written' # written)
          => (pc' = "ehlo2" /\ tls' = "secured" /\ NewData = <<EhloLine>>)
    /\ (WaitResolvedNow /\ pc = "ehlo2" /\ resp'.code # 250)
          => (pc' = "failed" /\ written' = written)
    /\ WritesLine(EhloLine) => pc \in {"banner", "upgrade"}

\* C11: STARTTLS is written exactly when the session is not implicit-TLS
\* and the greet reply contains STARTTLS; after its 220 comes the upgrade,
\* then EHLO, whose reply must be 250
C11_StartTlsWhenAdvertised == [][C11_Step]_vars

----------------------------------------------------------------------------
(* C12: HELO is written at most once per send, and only right after the   *)
(* first EHLO got a reply with a code other than 250; if the HELO reply   *)
(* is 250 the session goes on with the HELO Response as the greet reply,  *)
(* and if it is not send fails with nothing more written.                 *)

\* HELO is among the writes so far
HeloWritten == \E k \in 1..Len(written) : written[k].data = HeloLine

\* what the session does next with the greet Response r
C12_GoesOnWith(r) ==
    IF ~cfg.secure /\ Advertises(r.lines, sSTARTTLS)
    THEN NewData = <<StartTlsLine>> /\ pc' = "starttls"
    ELSE IF HasCredentials
    THEN IF AdvertisesAuth(r.lines, sPLAIN)
         THEN NewData = <<AuthPlainLine>> /\ pc' = "authplain"
         ELSE IF AdvertisesAuth(r.lines, sLOGIN)
         THEN NewData = <<AuthLoginLine>> /\ pc' = "authlogin"
         ELSE /\ NewData = <<>>
              /\ pc' = "failed"
              /\ error' = "Servidor nao anuncia AUTH PLAIN/Login"
    ELSE NewData = <<MailFromLine>> /\ pc' = "mailfrom"

C12_Step ==
    /\ WritesLine(HeloLine) =>
          /\ ~HeloWritten
          /\ NewData = <<HeloLine>>
          /\ WaitResolvedNow
          /\ pc = "ehlo"
          /\ resp'.code # 250
          /\ Len(written) = 1
    /\ (WaitResolvedNow /\ pc = "helo") =>
          IF resp'.code = 250
          THEN C12_GoesOnWith(resp')
          ELSE /\ pc' = "failed"
               /\ error' = "HELO/EHLO falhou"
               /\ written' = written
    /\ (pc = "failed" /\ error = "HELO/EHLO falhou") => written' = written

\* C12: one HELO at most, only after a refused first EHLO; a 250 to HELO
\* lets the session go on from the HELO Response, any other code ends it
C12_HeloFallback == [][C12_Step]_vars

\* the session went on to STARTTLS from a HELO Response
C12_Witness ==
    /\ pc = "starttls"
    /\ HeloWritten
    /\ Advertises(resp.lines, sSTARTTLS)
    /\ Len(written) = 3

----------------------------------------------------------------------------
(* C16: every Response send inspects has, when it is inspected, a code    *)
(* equal to the three digits that begin the last of its lines, and that   *)
(* last line has a space after the code, however the bytes were chunked.  *)
C16_CodeIsOfLastLine ==
    resp.code # NULL =>
        LET l == resp.lines[Len(resp.lines)]
        IN /\ IsFinalLine(l)
           /\ resp.code = 100 * DigitVal(l[1]) + 10 * DigitVal(l[2])
                          + DigitVal(l[3])

----------------------------------------------------------------------------
(* C19: when the session is not implicit-TLS and the greet reply          *)
(* advertises STARTTLS, no AUTH command, credential line, MAIL FROM, RCPT *)
(* TO, DATA or body is written over the plaintext path: they are written  *)
(* only after the upgrade completed, through the upgraded transport, and  *)
(* not at all if the STARTTLS reply is not 220.                           *)

\* a command line other than EHLO, HELO, STARTTLS and QUIT
C19_Guarded(d) == d \notin {EhloLine, HeloLine, StartTlsLine, QuitLine}

\* the writes so far, once STARTTLS is among them: nothing guarded before
\* it, and everything after it through the upgraded transport
C19_Writes(ws) ==
    \A j \in 1..Len(ws) :
        ws[j].data = StartTlsLine =>
            /\ ws[j].via = "plain"
            /\ \A k \in 1..(j - 1) : ~C19_Guarded(ws[k].data)
            /\ \A k \in (j + 1)..Len(ws) : ws[k].via = "tls"

C19_Step ==
    /\ (GreetAccepted /\ ~cfg.secure
          /\ Advertises(ReplyLines(resp'), sSTARTTLS))
          => NewData = <<StartTlsLine>>
    /\ C19_Writes(written')
    /\ ((\E j \in 1..Len(written) : written[j].data = StartTlsLine)
          /\ written' # written) => tls' = "secured"
    /\ (WaitResolvedNow /\ pc = "starttls" /\ resp'.code # 220)
          => (pc' = "failed" /\ written' = written)
    /\ pc = "failed" => written' = written

\* C19: with STARTTLS advertised to a session that is not implicit-TLS,
\* AUTH, credentials, MAIL FROM, RCPT TO, DATA and the body are written
\* only through the upgraded transport, after the upgrade
C19_NothingGuardedInPlaintext == [][C19_Step]_vars

\* a send with credentials that went through STARTTLS, AUTH, and the body
C19_Witness ==
    /\ pc = "done"
    /\ tls = "secured"
    /\ HasCredentials
    /\ \E k \in 1..Len(written) :
          written[k].data = AuthPlainLine /\ written[k].via = "tls"

----------------------------------------------------------------------------
(* C20: whatever the subject, text, html and attachment content of the    *)
(* message, with any mix of LF and CRLF line ends, the bytes written in   *)
(* the Body step hold exactly one line that is "." alone, and it is the   *)
(* last line written: no content of the message ends the DATA phase       *)
(* early.                                                                 *)

\* the lines of the written data d, which ends with a CRLF
C20_LinesWritten(d) ==
    LET ls == C10_Lines(d) IN SubSeq(ls, 1, Len(ls) - 1)

\* every LF of d ends a CRLF
C20_NoBareLF(d) ==
    \A i \in 1..Len(d) : d[i] = LF => (i > 1 /\ d[i - 1] = CR)

C20_OneTerminator ==
    (ds.pc = "written" /\ Len(written) = 1) =>
        LET d == written[1].data
            ls == C20_LinesWritten(d)
        IN /\ Len(d) >= 2
           /\ SubSeq(d, Len(d) - 1, Len(d)) = CRLF
           /\ C20_NoBareLF(d)
           /\ ls[Len(ls)] = <<".">>
           /\ \A i \in 1..(Len(ls) - 1) : ls[i] # <<".">>

\* a body written for a text that holds a line with "." alone, ended by LF
C20_Witness ==
    /\ ds.pc = "written"
    /\ msg.text = <<"a", LF, ".", LF>>
    /\ Len(written) = 1

----------------------------------------------------------------------------
(* C13: once a line reader was detached, because its wait resolved, timed *)
(* out or failed, none of its listeners is called for a line again,       *)
(* whatever the transport delivers: not for the rest of the chunk that    *)
(* held the final line, and not for waits started after the upgrade.      *)
C13_DetachedReaderIsSilent == ~io.late

----------------------------------------------------------------------------
(* C14: if the peer closes the transport while a response wait has seen   *)
(* no final line, the wait fails with a transport error and send fails:   *)
(* the wait does not stay pending.                                        *)
C14_CloseFailsTheWait ==
    (socket = "closed" /\ pc # "upgrade")
        => /\ wait.state = "rejected"
           /\ pc = "failed"
           /\ error = "socket error"

----------------------------------------------------------------------------
(* C17: in the upgrade the plaintext data listeners are taken off, then   *)
(* write, on, once and setTimeout are bound to the upgraded transport     *)
(* before the session reads or writes another byte, and no byte the       *)
(* transport delivers from then on is lost: each reaches the upgraded     *)
(* read path.                                                             *)

\* send() is suspended in the upgrade: nothing listens on the plaintext
\* path, the TLS layer has the transport, the four methods are rebound
C17_Rebound ==
    /\ ~wait.attached
    /\ io.wrapped
    /\ io.write = "secured"
    /\ io.on = "secured"
    /\ io.once = "secured"
    /\ io.setTimeout = "secured"

C17_Step ==
    /\ pc' = "upgrade" => C17_Rebound'
    /\ ~io.dropped'
    /\ (pc = "upgrade" /\ pc' = "upgrade")
          => (written' = written /\ wait' = wait /\ trace' = trace)
    /\ (tls' \in {"handshaking", "secured"} /\ written' # written)
          => /\ tls' = "secured"
             /\ \A k \in (Len(written) + 1)..Len(written') :
                   written'[k].via = "tls"

\* C17: the upgrade rebinds before anything is read or written, and loses
\* no byte
C17_UpgradeIsAtomic == [][C17_Step]_vars

\* bytes came in during the upgrade, the handshake completed, and the EHLO
\* after it went through the upgraded transport
C17_Witness ==
    /\ pc = "ehlo2"
    /\ io.hs
    /\ wait.attached
    /\ written[Len(written)] = [data |-> EhloLine, via |-> "tls"]

----------------------------------------------------------------------------
(* C18: if the transport fails, or the handshake never completes, after   *)
(* the 220 to STARTTLS and before the upgrade is done, send ends with a   *)
(* failure in the end: it does not stay suspended in the upgrade forever. *)
C18_UpgradeFailureSurfaces ==
    /\ (pc = "upgrade") ~> (pc \in {"ehlo2", "failed"})
    /\ (pc = "upgrade" /\ socket # "open") ~> (pc = "failed")

----------------------------------------------------------------------------
(* C15: each response wait is settled exactly once, by the first of: a    *)
(* final reply line (resolved with the response), a transport error       *)
(* (rejected with it), the inactivity timeout (rejected with the timeout  *)
(* error).  Later events of the other kinds, and the callbacks earlier    *)
(* waits of the send left registered, never change the outcome of a       *)
(* settled wait and never settle the current wait with a stale result.    *)

\* the code that begins line l
CodeOf(l) == 100 * DigitVal(l[1]) + 10 * DigitVal(l[2]) + DigitVal(l[3])

\* what this step may do to the k-th wait of the send
C15_Wait(k) ==
    LET w == cbs.waits[k]
        w2 == cbs'.waits[k]
        current == k = Len(cbs.waits)
    IN /\ w.state # "pending" =>
            /\ w2.state = w.state
            /\ w2.rcode = w.rcode
            /\ cbs'.errs[k] = cbs.errs[k]
       /\ (w.state = "pending" /\ w2.state = "resolved") =>
            /\ cbs'.ev = "line"
            /\ current
            /\ FirstFinal(w2.lines) = Len(w2.lines)
            /\ w2.lines = Append(w.lines, w2.lines[Len(w2.lines)])
            /\ w2.rcode = CodeOf(w2.lines[Len(w2.lines)])
            /\ cbs'.errs[k] = ""
       /\ (w.state = "pending" /\ w2.state = "rejected") =>
            /\ cbs'.ev \in {"timeout", "error"}
            /\ cbs'.errs[k] = IF cbs'.ev = "timeout"
                              THEN "Timeout aguardando resposta SMTP"
                              ELSE "socket error"
       /\ (w.state = "pending" /\ cbs'.ev \in {"timeout", "error"})
            => w2.state = "rejected"
       /\ (w.state = "pending" /\ cbs'.ev = "line"
             /\ IsFinalLine(w2.lines[Len(w2.lines)]))
            => w2.state = "resolved"

C15_Step ==
    /\ Len(cbs'.waits) >= Len(cbs.waits)
    /\ \A k \in 1..Len(cbs.waits) : C15_Wait(k)
    /\ \A k \in (Len(cbs.waits) + 1)..Len(cbs'.waits) :
          cbs'.waits[k].state = "pending"

\* C15: one settlement per wait, by the first event, never undone and
\* never taken from another wait
C15_SettledOnce == [][C15_Step]_vars

\* two waits resolved with different codes; the listener of the first was
\* called with a final line of another code after it resolved, and the
\* timeout and the error callbacks of both ran after they were settled
C15_Witness ==
    /\ Len(cbs.waits) = 2
    /\ cbs.waits[1].state = "resolved" /\ cbs.waits[1].rcode = 250
    /\ cbs.waits[2].state = "resolved" /\ cbs.waits[2].rcode = 550
    /\ Len(cbs.waits[1].lines) > 1
    /\ cbs.waits[1].code = 550
    /\ cbs.tcb = <<>>
    /\ cbs.ecb = <<>>
    /\ cbs.dead

====
